---------------------------- MODULE Spec2Model ----------------------------
(* Model of the author-attribution notebook                                *)
(* "Lesson 05/.ipynb_checkpoints/author_attribution-checkpoint.ipynb".     *)
(* A text is a sequence of one-character strings, a numpy matrix is a      *)
(* record [shape |-> <<rows, cols>>, data |-> <<row_1, ..., row_rows>>].   *)
EXTENDS Integers, Sequences, FiniteSets, TLC

VARIABLES
    pc,                 \* position of the notebook (or of the single call)
    call,               \* the function call under check: name, arguments, result
    papersA,            \* ./papers/A/ in os.listdir order: a sequence of files
    papersB,            \* ./papers/B/
    papersUnknown,      \* ./papers/Unknown/
    all_authorA,
    all_authorB,
    tokenizer,          \* [fitted, word_index] of the character tokenizer
    word_tokenizer,     \* [document_count] of the word tokenizer of cell 3
    sequences,          \* [XA, yA, XB, yB]: X_authorA, y_authorA, X_authorB, y_authorB
    split,              \* [X_train, X_val, y_train, y_val]
    model,              \* [built, input_length, input_dim, epochs, f]
    X_sequences,        \* the matrix of the unknown paper of the current iteration
    votes_for_authorA,
    votes_for_authorB,
    printed,            \* the lines printed by the vote-predict loop
    log                 \* history: the calls made on the tokenizer and the model

vars == <<pc, call, papersA, papersB, papersUnknown, all_authorA, all_authorB,
          tokenizer, word_tokenizer, sequences, split, model, X_sequences,
          votes_for_authorA, votes_for_authorB, printed, log>>

-----------------------------------------------------------------------------
(* Bounds of the model *)

MaxFragments == 3       \* fragments a generated file body is made of
MaxLongLen == 4         \* longest long_sequence given to make_subsequences alone
MaxWindow == 3          \* largest sequence_length given to make_subsequences alone
MaxToken == 2           \* tokens of those sequences are 1..MaxToken
MaxKnownExtra == 0      \* a known author's text has at most SEQ_LEN + MaxKnownExtra characters
MaxRows == 2            \* an unknown paper yields at most MaxRows subsequences
MaxPapers == 2          \* papers in ./papers/Unknown/

-----------------------------------------------------------------------------
(* Program constants *)

A == 0
B == 1
UNKNOWN == 0 - 1
SEQ_LEN == 30
Embedding_input_length == 30
Epochs == 20
Threshold == 5          \* 0.5, the model's outputs being counted in tenths

-----------------------------------------------------------------------------
(* Python str and list operations, as preprocess_text uses them *)

Uppercase == <<"A","B","C","D","E","F","G","H","I","J","K","L","M",
               "N","O","P","Q","R","S","T","U","V","W","X","Y","Z">>
Lowercase == <<"a","b","c","d","e","f","g","h","i","j","k","l","m",
               "n","o","p","q","r","s","t","u","v","w","x","y","z">>

Whitespace == {" ", "\n", "\t"}

\* the lower-case letter of every upper-case letter
LowerOf ==
    [c \in {Uppercase[k] : k \in 1..26} |-> Lowercase[CHOOSE k \in 1..26 : Uppercase[k] = c]]

lower_char(c) == IF c \in DOMAIN LowerOf THEN LowerOf[c] ELSE c

lower(s) == [i \in 1..Len(s) |-> lower_char(s[i])]

\* f.readlines(): the lines of the file, each keeping its "\n"
RECURSIVE readlines(_)
readlines(s) ==
    IF s = <<>> THEN <<>>
    ELSE LET nl == {i \in 1..Len(s) : s[i] = "\n"}
             k == IF nl = {} THEN Len(s)
                  ELSE CHOOSE i \in nl : \A j \in nl : i <= j
         IN <<SubSeq(s, 1, k)>> \o readlines(SubSeq(s, k + 1, Len(s)))

\* lines[1:]
from1(lines) == IF lines = <<>> THEN <<>> ELSE Tail(lines)

\* sep.join(parts)
RECURSIVE join(_, _)
join(sep, parts) ==
    IF parts = <<>> THEN <<>>
    ELSE IF Len(parts) = 1 THEN parts[1]
    ELSE parts[1] \o sep \o join(sep, Tail(parts))

\* s.replace(old, new): one left-to-right pass over the non-overlapping
\* occurrences of old; the result is not scanned again
RECURSIVE replace(_, _, _)
replace(s, old, new) ==
    IF Len(s) < Len(old) THEN s
    ELSE IF SubSeq(s, 1, Len(old)) = old
         THEN new \o replace(SubSeq(s, Len(old) + 1, Len(s)), old, new)
         ELSE <<s[1]>> \o replace(Tail(s), old, new)

\* s.split(): the maximal runs of non-whitespace characters
RECURSIVE split_ws(_)
split_ws(s) ==
    IF s = <<>> THEN <<>>
    ELSE IF s[1] \in Whitespace THEN split_ws(Tail(s))
    ELSE LET ws == {i \in 1..Len(s) : s[i] \in Whitespace}
             k == IF ws = {} THEN Len(s) + 1
                  ELSE CHOOSE i \in ws : \A j \in ws : i <= j
         IN <<SubSeq(s, 1, k - 1)>> \o split_ws(SubSeq(s, k, Len(s)))

\* whether sub occurs in s
contains(s, sub) ==
    \E i \in 1..(Len(s) - Len(sub) + 1) : SubSeq(s, i, i + Len(sub) - 1) = sub

hamilton == <<"h","a","m","i","l","t","o","n">>
madison == <<"m","a","d","i","s","o","n">>

\* preprocess_text(file_path), given the content of the file
preprocess_text(content) ==
    LET lines == readlines(content)
        t1 == join(<<" ">>, from1(lines))
        t2 == replace(t1, <<"\n">>, <<" ">>)
        t3 == replace(t2, <<" ", " ">>, <<" ">>)
        t4 == lower(t3)
        t5 == replace(t4, hamilton, <<>>)
        t6 == replace(t5, madison, <<>>)
    IN join(<<" ">>, split_ws(t6))

-----------------------------------------------------------------------------
(* numpy and make_subsequences *)

\* long_sequence[lo:hi] with 0 <= lo: Python clamps the slice to the list
PySlice(s, lo, hi) ==
    LET h == IF hi > Len(s) THEN Len(s) ELSE hi
    IN IF lo >= h THEN <<>> ELSE SubSeq(s, lo + 1, h)

\* make_subsequences with the + 1 of the row count left out: the last window
\* is lost
make_subsequences_short(long_sequence, label, sequence_length) ==
    LET len_sequences == Len(long_sequence)
        rows == len_sequences - sequence_length
    IN IF rows < 0
       THEN [error |-> TRUE, X |-> <<>>, y |-> <<>>]
       ELSE [error |-> FALSE,
             X |-> [shape |-> <<rows, sequence_length>>,
                    data |-> [i \in 1..rows |->
                                PySlice(long_sequence, i - 1, i - 1 + sequence_length)]],
             y |-> [shape |-> <<rows, 1>>,
                    data |-> [i \in 1..rows |-> <<label>>]]]

\* make_subsequences(long_sequence, label, sequence_length): np.zeros raises
\* ValueError for a negative dimension; otherwise row i is the slice
\* long_sequence[i:i+sequence_length] and y[i] is the label
make_subsequences(long_sequence, label, sequence_length) ==
    LET len_sequences == Len(long_sequence)
        rows == (len_sequences - sequence_length) + 1
    IN IF rows < 0
       THEN [error |-> TRUE, X |-> <<>>, y |-> <<>>]
       ELSE [error |-> FALSE,
             X |-> [shape |-> <<rows, sequence_length>>,
                    data |-> [i \in 1..rows |->
                                PySlice(long_sequence, i - 1, i - 1 + sequence_length)]],
             y |-> [shape |-> <<rows, 1>>,
                    data |-> [i \in 1..rows |-> <<label>>]]]

-----------------------------------------------------------------------------
(* The state of the notebook before its first cell has run *)

NoCall == [fn |-> "none"]
NoMatrix == [shape |-> <<0, 0>>, data |-> <<>>]

NotebookFresh ==
    /\ all_authorA = <<>>
    /\ all_authorB = <<>>
    /\ tokenizer = [fitted |-> FALSE, word_index |-> <<>>]
    /\ word_tokenizer = [document_count |-> 0]
    /\ sequences = [XA |-> NoMatrix, yA |-> NoMatrix, XB |-> NoMatrix, yB |-> NoMatrix]
    /\ split = [X_train |-> NoMatrix, X_val |-> NoMatrix,
                y_train |-> NoMatrix, y_val |-> NoMatrix]
    /\ model = [built |-> FALSE, input_length |-> 0, input_dim |-> 0,
                epochs |-> 0, f |-> <<>>]
    /\ X_sequences = NoMatrix
    /\ votes_for_authorA = 0
    /\ votes_for_authorB = 0
    /\ printed = <<>>
    /\ log = <<>>

NoPapers ==
    /\ papersA = <<>>
    /\ papersB = <<>>
    /\ papersUnknown = <<>>

notebookVars == <<papersA, papersB, papersUnknown, all_authorA, all_authorB,
                  tokenizer, word_tokenizer, sequences, split, model, X_sequences,
                  votes_for_authorA, votes_for_authorB, printed, log>>

-----------------------------------------------------------------------------
(* preprocess_text alone, on files written fragment by fragment *)

Fragments == { <<"\n">>, <<" ">>, <<"x">>,
               <<"h","a","m","i","l">>, <<"t","o","n">>,
               <<"m","a","d","i">>, <<"s","o","n">>,
               <<"M","a","d","i","s","o","n">>, hamilton }

HeaderLine == <<"N","o",".","\n">>

InitPre ==
    /\ pc = "write"
    /\ call = [fn |-> "preprocess_text", content |-> HeaderLine, fragments |-> 0]
    /\ NoPapers
    /\ NotebookFresh

WriteFragment ==
    /\ pc = "write"
    /\ call.fragments < MaxFragments
    /\ \E fr \in Fragments :
         call' = [call EXCEPT !.content = @ \o fr, !.fragments = @ + 1]
    /\ UNCHANGED <<pc, notebookVars>>

CallPreprocess ==
    /\ pc = "write"
    /\ pc' = "returned"
    /\ call' = [fn |-> "preprocess_text", content |-> call.content,
                fragments |-> call.fragments,
                text |-> preprocess_text(call.content)]
    /\ UNCHANGED notebookVars

NextPre == WriteFragment \/ CallPreprocess

SpecPre == InitPre /\ [][NextPre]_vars

-----------------------------------------------------------------------------
(* make_subsequences alone, on every short sequence and window length *)

RECURSIVE SeqsUpTo(_, _)
SeqsUpTo(S, n) ==
    IF n = 0 THEN {<<>>}
    ELSE LET shorter == SeqsUpTo(S, n - 1)
         IN shorter \cup {Append(s, x) : s \in {t \in shorter : Len(t) = n - 1}, x \in S}

InitSub ==
    /\ pc = "call"
    /\ \E s \in SeqsUpTo(1..MaxToken, MaxLongLen), l \in {A, B, UNKNOWN},
          w \in 1..MaxWindow :
         call = [fn |-> "make_subsequences", long_sequence |-> s, label |-> l,
                 sequence_length |-> w]
    /\ NoPapers
    /\ NotebookFresh

CallMakeSubsequences ==
    /\ pc = "call"
    /\ pc' = "returned"
    /\ call' = [fn |-> "make_subsequences", long_sequence |-> call.long_sequence,
                label |-> call.label, sequence_length |-> call.sequence_length,
                result |-> make_subsequences(call.long_sequence, call.label,
                                             call.sequence_length)]
    /\ UNCHANGED notebookVars

NextSub == CallMakeSubsequences

SpecSub == InitSub /\ [][NextSub]_vars

-----------------------------------------------------------------------------
(* keras Tokenizer(char_level=True) *)

\* tokenizer.fit_on_texts(texts) with texts a str: every character is one
\* text; the characters are counted and numbered from 1 by decreasing count,
\* characters of equal count in the order of their first occurrence
fit_on_texts(texts) ==
    LET t == lower(texts)
        chars == {t[i] : i \in 1..Len(t)}
        at == [c \in chars |-> {i \in 1..Len(t) : t[i] = c}]
        word_counts == [c \in chars |-> Cardinality(at[c])]
        first == [c \in chars |-> CHOOSE i \in at[c] : \A j \in at[c] : i <= j]
    IN [document_count |-> Len(texts),
        word_index |->
            [c \in chars |->
                1 + Cardinality({d \in chars :
                        \/ word_counts[d] > word_counts[c]
                        \/ word_counts[d] = word_counts[c] /\ first[d] < first[c]})]]

\* tokenizer.texts_to_sequences([text])[0]: the index of every character that
\* has one; a character the tokenizer has not seen is dropped
texts_to_sequences(word_index, text) ==
    LET t == lower(text)
        known == SelectSeq(t, LAMBDA c : c \in DOMAIN word_index)
    IN [i \in 1..Len(known) |-> word_index[known[i]]]

-----------------------------------------------------------------------------
(* numpy matrices *)

\* np.vstack((M1, M2))
vstack(M1, M2) ==
    [shape |-> <<M1.shape[1] + M2.shape[1], M1.shape[2]>>, data |-> M1.data \o M2.data]

RECURSIVE flatten(_)
flatten(rows) == IF rows = <<>> THEN <<>> ELSE rows[1] \o flatten(Tail(rows))

\* M.reshape(-1, cols): the elements in row-major order, cut into rows of cols
\* elements; the number of rows is inferred from the size
reshape(M, cols) ==
    LET flat == flatten(M.data)
        rows == (M.shape[1] * M.shape[2]) \div cols
    IN [shape |-> <<rows, cols>>,
        data |-> [i \in 1..rows |-> SubSeq(flat, (i - 1) * cols + 1, i * cols)]]

\* M[idx]: the rows of M at the (1-based) indices idx, in that order
take(M, idx) ==
    [shape |-> <<Len(idx), M.shape[2]>>, data |-> [k \in 1..Len(idx) |-> M.data[idx[k]]]]

Permutations1(n) == {p \in [1..n -> 1..n] : \A i, j \in 1..n : p[i] = p[j] => i = j}

\* train_test_split(X, y, train_size=0.8) under the permutation perm:
\* n_train = floor(0.8 * n), n_test = n - n_train, the test rows are the first
\* n_test indices of the permutation and the train rows the following ones
train_test_split(X, y, perm) ==
    LET n == X.shape[1]
        n_train == (8 * n) \div 10
        n_test == n - n_train
        test == SubSeq(perm, 1, n_test)
        train == SubSeq(perm, n_test + 1, n)
    IN [X_train |-> take(X, train), X_val |-> take(X, test),
        y_train |-> take(y, train), y_val |-> take(y, test)]

-----------------------------------------------------------------------------
(* The papers the notebook is run on *)

Cyc(pattern, n) == [i \in 1..n |-> pattern[((i - 1) % Len(pattern)) + 1]]

\* a paper: a title line, then n characters of the pattern, then a full stop
Paper(pattern, n) == HeaderLine \o Cyc(pattern, n) \o <<".", "\n">>

PatternA == <<"a", "b", " ">>
PatternB == <<"c", "a", "b", " ">>
PatternU == <<"b", " ", "a", "c">>

\* two papers of author A with SEQ_LEN + e characters after preprocessing
PapersOfA(e) == <<Paper(PatternA, 9), Paper(PatternA, SEQ_LEN + e - 11)>>

\* one paper of author B with SEQ_LEN + e characters after preprocessing
PapersOfB(e) == <<Paper(PatternB, SEQ_LEN + e - 1)>>

\* an unknown paper with SEQ_LEN - 1 + k characters after preprocessing
UnknownPaper(k) == Paper(PatternU, SEQ_LEN + k - 2)

\* an unknown paper that names an author, breaks its lines and uses a
\* character ("Z") that no known paper holds
NoisyPaper ==
    HeaderLine \o <<"M","a","d","i","s","o","n"," ","Z","\n">>
               \o Cyc(PatternU, SEQ_LEN - 3) \o <<" ", " ", "\n">>
               \o <<"H","a","m","i","l","t","o","n","\n">> \o <<"a", "c", ".">>

UnknownLibrary == {UnknownPaper(k) : k \in (0 - 1)..MaxRows} \cup {NoisyPaper}

KnownExtras == (0 - 2)..MaxKnownExtra

UnknownFolders ==
    {f \in SeqsUpTo(UnknownLibrary, MaxPapers) :
        f # <<>> /\ \A i, j \in 1..Len(f) : f[i] = f[j] => i = j}

\* the runs: every pair of known folders with one unknown paper, and every
\* unknown folder with the shortest known folders that train
Runs ==
    {[A |-> PapersOfA(ea), B |-> PapersOfB(eb), U |-> <<UnknownPaper(1)>>] :
        ea \in KnownExtras, eb \in KnownExtras}
    \cup {[A |-> PapersOfA(0), B |-> PapersOfB(0), U |-> u] : u \in UnknownFolders}

-----------------------------------------------------------------------------
(* The notebook, cell by cell *)

Init ==
    /\ pc = "cell1"
    /\ call = NoCall
    /\ \E run \in Runs :
         /\ papersA = run.A
         /\ papersB = run.B
         /\ papersUnknown = run.U
    /\ NotebookFresh

RECURSIVE concat_preprocessed(_)
concat_preprocessed(files) ==
    IF files = <<>> THEN <<>>
    ELSE preprocess_text(files[1]) \o concat_preprocessed(Tail(files))

\* cell 1: the known papers of each author, preprocessed and concatenated
Cell1 ==
    /\ pc = "cell1"
    /\ all_authorA' = concat_preprocessed(papersA)
    /\ all_authorB' = concat_preprocessed(papersB)
    /\ pc' = "cell2"
    /\ UNCHANGED <<call, papersA, papersB, papersUnknown, tokenizer, word_tokenizer,
                   sequences, split, model, X_sequences, votes_for_authorA,
                   votes_for_authorB, printed, log>>

\* cell 2: the tokenizer is fitted, both texts are encoded and cut into
\* subsequences; make_subsequences raises for a text shorter than SEQ_LEN - 1
Cell2 ==
    /\ pc = "cell2"
    /\ LET tok == fit_on_texts(all_authorA \o all_authorB)
           authorA_long_sequence == texts_to_sequences(tok.word_index, all_authorA)
           authorB_long_sequence == texts_to_sequences(tok.word_index, all_authorB)
           a == make_subsequences(authorA_long_sequence, A, SEQ_LEN)
           b == make_subsequences(authorB_long_sequence, B, SEQ_LEN)
           calls == <<[op |-> "fit_on_texts", texts |-> all_authorA \o all_authorB],
                      [op |-> "texts_to_sequences", word_index |-> tok.word_index],
                      [op |-> "texts_to_sequences", word_index |-> tok.word_index]>>
       IN /\ tokenizer' = tok
          /\ log' = log \o calls
          /\ \/ /\ a.error \/ b.error
                /\ pc' = "error"
                /\ UNCHANGED sequences
             \/ /\ ~a.error /\ ~b.error
                /\ sequences' = [XA |-> a.X, yA |-> a.y, XB |-> b.X, yB |-> b.y]
                /\ pc' = "cell3"
    /\ UNCHANGED <<call, papersA, papersB, papersUnknown, all_authorA, all_authorB,
                   word_tokenizer, split, model, X_sequences, votes_for_authorA,
                   votes_for_authorB, printed>>

\* cell 3: a second, word-level tokenizer is fitted on the two texts to print
\* the word counts
Cell3 ==
    /\ pc = "cell3"
    /\ word_tokenizer' = [document_count |-> Len(<<all_authorA, all_authorB>>)]
    /\ pc' = "cell4"
    /\ UNCHANGED <<call, papersA, papersB, papersUnknown, all_authorA, all_authorB,
                   tokenizer, sequences, split, model, X_sequences, votes_for_authorA,
                   votes_for_authorB, printed, log>>

\* cell 4: stack, split 80/20 under a random permutation, reshape;
\* train_test_split raises when the train set would be empty
Cell4 ==
    /\ pc = "cell4"
    /\ LET X == vstack(sequences.XA, sequences.XB)
           y == vstack(sequences.yA, sequences.yB)
           n == X.shape[1]
       IN \/ /\ (8 * n) \div 10 = 0
             /\ pc' = "error"
             /\ UNCHANGED split
          \/ /\ (8 * n) \div 10 > 0
             /\ \E perm \in Permutations1(n) :
                  LET s == train_test_split(X, y, perm)
                  IN split' = [s EXCEPT !.X_train = reshape(s.X_train, SEQ_LEN),
                                        !.X_val = reshape(s.X_val, SEQ_LEN)]
             /\ pc' = "cell5"
    /\ UNCHANGED <<call, papersA, papersB, papersUnknown, all_authorA, all_authorB,
                   tokenizer, word_tokenizer, sequences, model, X_sequences,
                   votes_for_authorA, votes_for_authorB, printed, log>>

\* cell 5 with the embedding size (100) written where the input length goes
Cell5_embedding_size ==
    /\ pc = "cell5"
    /\ model' = [built |-> TRUE, input_length |-> 100,
                 input_dim |-> Cardinality(DOMAIN tokenizer.word_index) + 1,
                 epochs |-> 0, f |-> <<>>]
    /\ pc' = "cell6"
    /\ UNCHANGED <<call, papersA, papersB, papersUnknown, all_authorA, all_authorB,
                   tokenizer, word_tokenizer, sequences, split, X_sequences,
                   votes_for_authorA, votes_for_authorB, printed, log>>

\* cell 5: the model is declared: Embedding(len(word_index)+1, 100,
\* input_length=30), SimpleRNN, Dense(1, sigmoid); f is what the model
\* answers, row by row, once it has been asked
Cell5 ==
    /\ pc = "cell5"
    /\ model' = [built |-> TRUE, input_length |-> Embedding_input_length,
                 input_dim |-> Cardinality(DOMAIN tokenizer.word_index) + 1,
                 epochs |-> 0, f |-> <<>>]
    /\ pc' = "cell6"
    /\ UNCHANGED <<call, papersA, papersB, papersUnknown, all_authorA, all_authorB,
                   tokenizer, word_tokenizer, sequences, split, X_sequences,
                   votes_for_authorA, votes_for_authorB, printed, log>>

\* cell 6: model.fit(X_train, y_train, epochs=Epochs, validation_data=...)
Cell6 ==
    /\ pc = "cell6"
    /\ model' = [model EXCEPT !.epochs = Epochs]
    /\ log' = Append(log, [op |-> "model.fit", shape |-> split.X_train.shape,
                           val_shape |-> split.X_val.shape])
    /\ pc' = "predict"
    /\ UNCHANGED <<call, papersA, papersB, papersUnknown, all_authorA, all_authorB,
                   tokenizer, word_tokenizer, sequences, split, X_sequences,
                   votes_for_authorA, votes_for_authorB, printed>>

\* the outputs of the sigmoid the model answers with, in tenths
Probs == {3, Threshold, 7}

\* the encoding of an unknown paper by a tokenizer fitted again, on that paper
TokenizeUnknown_refit(tok, unknown) ==
    LET again == fit_on_texts(unknown)
    IN [tokenizer |-> again,
        calls |-> <<[op |-> "fit_on_texts", texts |-> unknown],
                    [op |-> "texts_to_sequences", word_index |-> again.word_index]>>,
        long_sequence |-> texts_to_sequences(again.word_index, unknown)]

\* tokenizer.texts_to_sequences([unknown])[0] in the loop: the tokenizer as
\* it is left, the calls made on it, and the encoded paper
TokenizeUnknown(tok, unknown) ==
    [tokenizer |-> tok,
     calls |-> <<[op |-> "texts_to_sequences", word_index |-> tok.word_index]>>,
     long_sequence |-> texts_to_sequences(tok.word_index, unknown)]

\* np.sum(y == v) for the vector y of booleans (as 0 and 1)
count_equal(y, v) == Cardinality({i \in 1..Len(y) : y[i] = v})

\* cell 7, one iteration of the loop over ./papers/Unknown/ (the paper is
\* named by its position in the folder). make_subsequences raises for a paper
\* shorter than SEQ_LEN - 1; a paper of SEQ_LEN - 1 characters gives a matrix
\* of no rows, for which model.predict returns no array and the comparison
\* y > 0.5 raises. Otherwise the model answers every row, equal rows alike and
\* as it answered them before, and the verdict is printed.
PredictPaper ==
    /\ pc = "predict"
    /\ Len(printed) < Len(papersUnknown)
    /\ \E x \in {Len(printed) + 1} :
       \E unknown \in {preprocess_text(papersUnknown[x])} :
       \E enc \in {TokenizeUnknown(tokenizer, unknown)} :
       \E m \in {make_subsequences(enc.long_sequence, UNKNOWN, SEQ_LEN)} :
          /\ tokenizer' = enc.tokenizer
          /\ \/ /\ m.error
                /\ pc' = "error"
                /\ log' = log \o enc.calls
                /\ UNCHANGED <<model, X_sequences, votes_for_authorA,
                               votes_for_authorB, printed>>
             \/ /\ ~m.error
                /\ m.X.shape[1] = 0
                /\ X_sequences' = reshape(m.X, SEQ_LEN)
                /\ votes_for_authorA' = 0
                /\ votes_for_authorB' = 0
                /\ log' = log \o enc.calls
                            \o <<[op |-> "model.predict", shape |-> X_sequences'.shape]>>
                /\ pc' = "error"
                /\ UNCHANGED <<model, printed>>
             \/ /\ ~m.error
                /\ m.X.shape[1] > 0
                /\ \E Xs \in {reshape(m.X, SEQ_LEN)} :
                   \E new \in {{Xs.data[i] : i \in 1..Xs.shape[1]} \ DOMAIN model.f} :
                   \E g \in [new -> Probs] :
                   \E f \in {[r \in DOMAIN model.f \cup new |->
                                IF r \in new THEN g[r] ELSE model.f[r]]} :
                   \E y \in {[i \in 1..Xs.shape[1] |->
                                IF f[Xs.data[i]] > Threshold THEN 1 ELSE 0]} :
                   \E votesA \in {count_equal(y, 0)} :
                   \E votesB \in {count_equal(y, 1)} :
                      /\ X_sequences' = Xs
                      /\ model' = [model EXCEPT !.f = f]
                      /\ votes_for_authorA' = votesA
                      /\ votes_for_authorB' = votesB
                      /\ printed' = Append(printed,
                           [paper |-> x,
                            author |-> IF votesA > votesB THEN "Author A"
                                       ELSE "Author B",
                            first |-> IF votesA > votesB THEN votesA ELSE votesB,
                            second |-> IF votesA < votesB THEN votesA ELSE votesB])
                      /\ log' = log \o enc.calls
                           \o <<[op |-> "model.predict", shape |-> Xs.shape]>>
                      /\ pc' = IF x = Len(papersUnknown) THEN "done" ELSE "predict"
    /\ UNCHANGED <<call, papersA, papersB, papersUnknown, all_authorA, all_authorB,
                   word_tokenizer, sequences, split>>

Next == Cell1 \/ Cell2 \/ Cell3 \/ Cell4 \/ Cell5 \/ Cell6 \/ PredictPaper

Spec == Init /\ [][Next]_vars

-----------------------------------------------------------------------------
(* Claims about make_subsequences *)

\* C3: for a sequence of length L >= sequence_length, make_subsequences returns
\* X with exactly L - sequence_length + 1 rows and y with as many rows; row i of
\* X is the window long_sequence[i .. i+sequence_length-1] and y[i] is the label.
C3_Windows ==
    (pc = "returned" /\ call.fn = "make_subsequences"
        /\ Len(call.long_sequence) >= call.sequence_length)
    => LET L == Len(call.long_sequence)
           w == call.sequence_length
           r == call.result
       IN /\ ~r.error
          /\ r.X.shape = <<L - w + 1, w>>
          /\ Len(r.X.data) = L - w + 1
          /\ r.y.shape = <<L - w + 1, 1>>
          /\ Len(r.y.data) = L - w + 1
          /\ \A i \in 0..(L - w) :
                /\ Len(r.X.data[i + 1]) = w
                /\ \A j \in 0..(w - 1) :
                      r.X.data[i + 1][j + 1] = call.long_sequence[i + j + 1]
                /\ r.y.data[i + 1] = <<call.label>>

\* a call that returned three windows of two tokens over a sequence that is
\* not constant, labelled UNKNOWN
C3_Witness ==
    /\ pc = "returned"
    /\ call.fn = "make_subsequences"
    /\ call.long_sequence = <<1, 2, 2, 1>>
    /\ call.sequence_length = 2
    /\ call.label = UNKNOWN
    /\ call.result.X.data = << <<1, 2>>, <<2, 2>>, <<2, 1>> >>

-----------------------------------------------------------------------------
(* Claims about preprocess_text *)

\* C4: the text preprocess_text returns contains neither 'hamilton' nor
\* 'madison' as a substring, whatever the content of the file.
C4_NoAuthorNames ==
    (pc = "returned" /\ call.fn = "preprocess_text")
    => (~contains(call.text, hamilton) /\ ~contains(call.text, madison))

-----------------------------------------------------------------------------
(* Claims about the vote *)

Verdict == pc \in {"predict", "done"} /\ printed # <<>>

\* C1: the author printed for an unknown paper is the author that received
\* more votes than the other one over the paper's subsequences, and the two
\* numbers printed are the winner's votes followed by the loser's.
C1_MajorityPrinted ==
    Verdict =>
        LET line == printed[Len(printed)]
        IN \/ /\ line.author = "Author A"
              /\ votes_for_authorA > votes_for_authorB
              /\ line.first = votes_for_authorA
              /\ line.second = votes_for_authorB
           \/ /\ line.author = "Author B"
              /\ votes_for_authorB > votes_for_authorA
              /\ line.first = votes_for_authorB
              /\ line.second = votes_for_authorA

\* C2: the number of subsequences voted on is odd, so that the two vote
\* counts differ whenever a verdict is printed.
C2_OddClearMajority ==
    Verdict =>
        /\ X_sequences.shape[1] % 2 = 1
        /\ votes_for_authorA # votes_for_authorB

-----------------------------------------------------------------------------
(* Claims about the order of the pipeline *)

Ops(name) == {i \in 1..Len(log) : log[i].op = name}

\* C5: the character tokenizer is fitted exactly once, on the known authors'
\* texts only and before any text is encoded; the model is trained once,
\* after the encoding and before any prediction; in the vote-predict loop
\* the tokenizer is not refitted and the model is not retrained, so every
\* text is encoded with the mapping fitted on the known texts.
C5_LinearPipeline ==
    /\ Cardinality(Ops("fit_on_texts")) <= 1
    /\ Cardinality(Ops("model.fit")) <= 1
    /\ pc \in {"cell3", "cell4", "cell5", "cell6", "predict", "done"}
          => Cardinality(Ops("fit_on_texts")) = 1
    /\ pc \in {"predict", "done"} => Cardinality(Ops("model.fit")) = 1
    /\ \A i \in Ops("fit_on_texts") :
          /\ log[i].texts = all_authorA \o all_authorB
          /\ \A j \in 1..(i - 1) : log[j].op # "texts_to_sequences"
    /\ pc = "cell3"
          => tokenizer.word_index = fit_on_texts(all_authorA \o all_authorB).word_index
    /\ \A i \in Ops("texts_to_sequences") :
          /\ \E j \in Ops("fit_on_texts") : j < i
          /\ \A j \in Ops("texts_to_sequences") : log[i].word_index = log[j].word_index
          /\ log[i].word_index = tokenizer.word_index
    /\ \A i \in Ops("model.fit") :
          /\ \E j \in Ops("texts_to_sequences") : j < i
          /\ \A j \in Ops("fit_on_texts") : j < i
          /\ \A j \in Ops("model.predict") : i < j
    /\ \A i \in Ops("model.predict") : \E j \in Ops("model.fit") : j < i

\* the notebook ran to its end over two unknown papers
C5_Witness ==
    /\ pc = "done"
    /\ Len(printed) = 2
    /\ Cardinality(Ops("model.predict")) = 2
    /\ Cardinality(Ops("texts_to_sequences")) = 4

-----------------------------------------------------------------------------
(* Claims about the shapes *)

WellShaped(M, cols) ==
    /\ M.shape[2] = cols
    /\ Len(M.data) = M.shape[1]
    /\ \A i \in 1..Len(M.data) : Len(M.data[i]) = cols

\* C6: X_train, X_val and the X_sequences of every unknown paper have exactly
\* SEQ_LEN columns, SEQ_LEN is the input length the model is declared with
\* (30), and every matrix given to model.fit and model.predict has it.
C6_ShapeConsistency ==
    /\ pc \in {"cell5", "cell6", "predict", "done"}
          => /\ WellShaped(split.X_train, SEQ_LEN)
             /\ WellShaped(split.X_val, SEQ_LEN)
             /\ split.y_train.shape[1] = split.X_train.shape[1]
             /\ split.y_val.shape[1] = split.X_val.shape[1]
    /\ model.built => model.input_length = SEQ_LEN /\ model.input_length = 30
    /\ X_sequences # NoMatrix => WellShaped(X_sequences, SEQ_LEN)
    /\ \A i \in Ops("model.fit") :
          /\ log[i].shape[2] = model.input_length
          /\ log[i].val_shape[2] = model.input_length
    /\ \A i \in Ops("model.predict") :
          /\ log[i].shape[2] = model.input_length
          /\ log[i].shape[2] = SEQ_LEN

\* the model was trained on one row, validated on another and asked about the
\* two subsequences of an unknown paper
C6_Witness ==
    /\ pc = "done"
    /\ split.X_train.shape = <<1, SEQ_LEN>>
    /\ split.X_val.shape = <<1, SEQ_LEN>>
    /\ X_sequences.shape = <<2, SEQ_LEN>>
    /\ model.epochs = Epochs

=============================================================================
